---- MODULE Spec2Model ----
(***************************************************************************)
(* mbenadda.com: the site configuration module (src/data/SiteConfig.js)    *)
(* and the example post (src/unnamed/part_000).                            *)
(*                                                                         *)
(* The repository holds data, not control flow.  The one thing its code    *)
(* does is evaluate the object literal of SiteConfig.js and export the     *)
(* resulting object.  The model keeps the literal as it is written (a      *)
(* sequence of properties, the commented-out ones included), evaluates it  *)
(* as JavaScript does, and lets a consumer read the exported object and    *)
(* split the front matter of the post.                                     *)
(*                                                                         *)
(* A JavaScript string is a sequence of one-character strings, so that     *)
(* its shape (a URL scheme, a quote, a delimiter) can be inspected; Str    *)
(* renders one as a TLA+ string.  A JavaScript value carries its type in   *)
(* the field t, as typeof and Array.isArray report it.                     *)
(*                                                                         *)
(* The front-matter splitter and the order in which a build reads the      *)
(* configuration and the post are not part of these two files: they follow *)
(* sections 2, 4.2 and 6 of the specification.                             *)
(***************************************************************************)
EXTENDS Integers, Sequences, FiniteSets, TLC

VARIABLES
  phase,     \* "start" before SiteConfig.js has been evaluated, "loaded" after
  edit,      \* the edit under which the configuration was written (the input)
  source,    \* the object literal that was evaluated
  settings,  \* the exported object (module.exports)
  thrown,    \* the error raised by evaluating the module, "none" if none
  lastRead,  \* the value the last property read returned
  doc        \* the result of splitting the example post

vars == <<phase, edit, source, settings, thrown, lastRead, doc>>

-----------------------------------------------------------------------------
(* JavaScript values *)

JsStr(cs) == [t |-> "string", v |-> cs]
JsNum(n) == [t |-> "number", v |-> n]
JsBool(b) == [t |-> "boolean", v |-> b]
JsArrLit(elems) == [t |-> "arrayLiteral", v |-> elems]
JsObjLit(props) == [t |-> "objectLiteral", v |-> props]
Undefined == [t |-> "undefined", v |-> <<>>]

\* A property of an object literal; a commented-out one is text, not code.
Property(k, val) == [key |-> k, value |-> val, live |-> TRUE]
Commented(k, val) == [key |-> k, value |-> val, live |-> FALSE]

RECURSIVE Str(_)
Str(cs) == IF cs = <<>> THEN "" ELSE Head(cs) \o Str(Tail(cs))

-----------------------------------------------------------------------------
(* src/data/SiteConfig.js *)

\* Faulty variant: the e-mail address listed first.
SiteSocialUrlsMailFirst ==
  JsArrLit(<<
    JsStr(<<
          "m", "a", "i", "l", "t", "o", ":", "h", "e", "l", "l", "o", "@", "m", "b", "e",
          "n", "a", "d", "d", "a", ".", "c", "o", "m">>),
    JsStr(<<
          "h", "t", "t", "p", "s", ":", "/", "/", "g", "i", "t", "h", "u", "b", ".", "c",
          "o", "m", "/", "m", "b", "e", "n", "a", "d", "d", "a">>),
    JsStr(<<
          "h", "t", "t", "p", "s", ":", "/", "/", "t", "w", "i", "t", "t", "e", "r", ".",
          "c", "o", "m", "/", "m", "b", "e", "n", "a", "d", "d", "a">>)>>)

\* siteSocialUrls (lines 21-25)
SiteSocialUrlsLiteral ==
  JsArrLit(<<
    JsStr(<<
          "h", "t", "t", "p", "s", ":", "/", "/", "g", "i", "t", "h", "u", "b", ".", "c",
          "o", "m", "/", "m", "b", "e", "n", "a", "d", "d", "a">>),
    JsStr(<<
          "h", "t", "t", "p", "s", ":", "/", "/", "t", "w", "i", "t", "t", "e", "r", ".",
          "c", "o", "m", "/", "m", "b", "e", "n", "a", "d", "d", "a">>),
    JsStr(<<
          "m", "a", "i", "l", "t", "o", ":", "h", "e", "l", "l", "o", "@", "m", "b", "e",
          "n", "a", "d", "d", "a", ".", "c", "o", "m">>)>>)

\* Faulty variant: the first two links exchanged.
UserLinksSwapped ==
  JsArrLit(<<
    JsObjLit(<<
      Property("label", JsStr(<<"T", "w", "i", "t", "t", "e", "r">>)),
      Property("url", JsStr(<<
            "h", "t", "t", "p", "s", ":", "/", "/", "t", "w", "i", "t", "t", "e", "r", ".",
            "c", "o", "m", "/", "m", "b", "e", "n", "a", "d", "d", "a">>)),
      Property("iconClassName", JsStr(<<"f", "a", " ", "f", "a", "-", "t", "w", "i", "t", "t", "e", "r">>))>>),
    JsObjLit(<<
      Property("label", JsStr(<<"G", "i", "t", "H", "u", "b">>)),
      Property("url", JsStr(<<
            "h", "t", "t", "p", "s", ":", "/", "/", "g", "i", "t", "h", "u", "b", ".", "c",
            "o", "m", "/", "m", "b", "e", "n", "a", "d", "d", "a">>)),
      Property("iconClassName", JsStr(<<"f", "a", " ", "f", "a", "-", "g", "i", "t", "h", "u", "b">>))>>),
    JsObjLit(<<
      Property("label", JsStr(<<"E", "m", "a", "i", "l">>)),
      Property("url", JsStr(<<
            "m", "a", "i", "l", "t", "o", ":", "h", "e", "l", "l", "o", "@", "m", "b", "e",
            "n", "a", "d", "d", "a", ".", "c", "o", "m">>)),
      Property("iconClassName", JsStr(<<"f", "a", " ", "f", "a", "-", "e", "n", "v", "e", "l", "o", "p", "e">>))>>)>>)

\* userLinks (lines 28-44)
UserLinksLiteral ==
  JsArrLit(<<
    JsObjLit(<<
      Property("label", JsStr(<<"G", "i", "t", "H", "u", "b">>)),
      Property("url", JsStr(<<
            "h", "t", "t", "p", "s", ":", "/", "/", "g", "i", "t", "h", "u", "b", ".", "c",
            "o", "m", "/", "m", "b", "e", "n", "a", "d", "d", "a">>)),
      Property("iconClassName", JsStr(<<"f", "a", " ", "f", "a", "-", "g", "i", "t", "h", "u", "b">>))>>),
    JsObjLit(<<
      Property("label", JsStr(<<"T", "w", "i", "t", "t", "e", "r">>)),
      Property("url", JsStr(<<
            "h", "t", "t", "p", "s", ":", "/", "/", "t", "w", "i", "t", "t", "e", "r", ".",
            "c", "o", "m", "/", "m", "b", "e", "n", "a", "d", "d", "a">>)),
      Property("iconClassName", JsStr(<<"f", "a", " ", "f", "a", "-", "t", "w", "i", "t", "t", "e", "r">>))>>),
    JsObjLit(<<
      Property("label", JsStr(<<"E", "m", "a", "i", "l">>)),
      Property("url", JsStr(<<
            "m", "a", "i", "l", "t", "o", ":", "h", "e", "l", "l", "o", "@", "m", "b", "e",
            "n", "a", "d", "d", "a", ".", "c", "o", "m">>)),
      Property("iconClassName", JsStr(<<"f", "a", " ", "f", "a", "-", "e", "n", "v", "e", "l", "o", "p", "e">>))>>)>>)

\* Faulty variant: a property the schema does not know.
CopyrightWithHolder ==
  JsObjLit(<<
    Property("label",
      JsStr(<<"M", "e", "h", "d", "i", " ", "B", "e", "n", "a", "d", "d", "a">>)),
    Commented("year",
      JsStr(<<"2", "0", "1", "8">>)),
    Property("holder",
      JsStr(<<"M", "e", "h", "d", "i", " ", "B", "e", "n", "a", "d", "d", "a">>))>>)

\* copyright (lines 46-50); year and url are commented out
CopyrightLiteral ==
  JsObjLit(<<
    Property("label",
      JsStr(<<"M", "e", "h", "d", "i", " ", "B", "e", "n", "a", "d", "d", "a">>)),
    Commented("year",
      JsStr(<<"2", "0", "1", "8">>)),
    Commented("url",
      JsStr(<<
          "h", "t", "t", "p", "s", ":", "/", "/", "w", "w", "w", ".", "g", "a", "t", "s",
          "b", "y", "j", "s", ".", "o", "r", "g", "/">>))>>)

\* The object literal assigned to module.exports (lines 1-54), in source order.
ConfigLiteral ==
  JsObjLit(<<
    Property("blogPostDir",
      JsStr(<<"s", "a", "m", "p", "l", "e", "-", "p", "o", "s", "t", "s">>)),
    Property("blogAuthorDir",
      JsStr(<<"p", "e", "o", "p", "l", "e">>)),
    Property("blogAuthorId",
      JsStr(<<"m", "e", "h", "d", "i">>)),
    Property("siteTitle",
      JsStr(<<
          "M", "e", "h", "d", "i", " ", "B", "e", "n", "a", "d", "d", "a", ",", " ", "f",
          "r", "e", "e", "l", "a", "n", "c", "e", " ", "w", "e", "b", " ", "d", "e", "v",
          "e", "l", "o", "p", "e", "r">>)),
    Property("siteTitleAlt",
      JsStr(<<
          "M", "e", "h", "d", "i", " ", "B", "e", "n", "a", "d", "d", "a", ",", " ", "f",
          "r", "e", "e", "l", "a", "n", "c", "e", " ", "w", "e", "b", " ", "d", "e", "v",
          "e", "l", "o", "p", "e", "r", ",", " ", "J", "S", "/", "T", "S", "/", "R", "e",
          "a", "s", "o", "n">>)),
    Property("siteLogo",
      JsStr(<<
          "h", "t", "t", "p", "s", ":", "/", "/", "h", "a", "y", "s", "c", "l", "a", "r",
          "k", ".", "g", "i", "t", "h", "u", "b", ".", "i", "o", "/", "g", "a", "t", "s",
          "b", "y", "-", "s", "t", "a", "r", "t", "e", "r", "-", "c", "a", "s", "p", "e",
          "r", "/", "l", "o", "g", "o", "s", "/", "l", "o", "g", "o", "-", "1", "0", "2",
          "4", ".", "p", "n", "g">>)),
    Property("siteUrl",
      JsStr(<<
          "h", "t", "t", "p", "s", ":", "/", "/", "h", "a", "y", "s", "c", "l", "a", "r",
          "k", ".", "g", "i", "t", "h", "u", "b", ".", "i", "o">>)),
    Property("pathPrefix",
      JsStr(<<
          "/", "g", "a", "t", "s", "b", "y", "-", "s", "t", "a", "r", "t", "e", "r", "-",
          "c", "a", "s", "p", "e", "r">>)),
    Property("siteDescription",
      JsStr(<<
          "M", "a", "i", "n", "l", "y", " ", "w", "r", "i", "t", "i", "n", "g", " ", "a",
          "b", "o", "u", "t", " ", "J", "S", "/", "T", "S", "/", "R", "e", "a", "s", "o",
          "n", " ", "&", " ", "P", "y", "t", "h", "o", "n", "/", "D", "j", "a", "n", "g",
          "o", ".">>)),
    Property("siteCover",
      JsStr(<<
          "/", "i", "m", "a", "g", "e", "s", "/", "b", "l", "o", "g", "-", "c", "o", "v",
          "e", "r", ".", "j", "p", "g">>)),
    Property("siteNavigation",
      JsBool(TRUE)),
    Property("siteRss",
      JsStr(<<"/", "r", "s", "s", ".", "x", "m", "l">>)),
    Property("siteRssAuthor",
      JsStr(<<"M", "e", "h", "d", "i", " ", "B", "e", "n", "a", "d", "d", "a">>)),
    Commented("siteFBAppID",
      JsStr(<<"1", "8", "2", "5", "3", "5", "6", "2", "5", "1", "1", "1", "5", "2", "6", "5">>)),
    Property("sitePaginationLimit",
      JsNum(10)),
    Property("googleAnalyticsID",
      JsStr(<<"U", "A", "-", "1", "1", "1", "9", "8", "2", "1", "6", "7", "-", "1">>)),
    Commented("disqusShortname",
      JsStr(<<
          "h", "t", "t", "p", "s", "-", "v", "a", "g", "r", "9", "k", "-", "g", "i", "t",
          "h", "u", "b", "-", "i", "o", "-", "g", "a", "t", "s", "b", "y", "-", "a", "d",
          "v", "a", "n", "c", "e", "d", "-", "s", "t", "a", "r", "t", "e", "r">>)),
    Property("siteSocialUrls",
      SiteSocialUrlsLiteral),
    Property("postDefaultCategoryID",
      JsStr(<<"T", "e", "c", "h">>)),
    Property("userLinks",
      UserLinksLiteral),
    Property("copyright",
      CopyrightLiteral),
    Property("themeColor",
      JsStr(<<"#", "c", "6", "2", "8", "2", "8">>)),
    Property("backgroundColor",
      JsStr(<<"#", "e", "0", "e", "0", "e", "0">>)),
    Property("promoteGatsby",
      JsBool(TRUE))>>)

\* Evaluating a literal: commented-out properties do not exist, a repeated
\* key keeps its last value, nested literals are evaluated in turn.
RECURSIVE Evaluate(_)
Evaluate(lit) ==
  CASE lit.t = "objectLiteral" ->
         LET live == SelectSeq(lit.v, LAMBDA e : e.live)
             keys == {live[i].key : i \in DOMAIN live}
             last(k) == CHOOSE i \in DOMAIN live :
                          /\ live[i].key = k
                          /\ \A j \in DOMAIN live : live[j].key = k => j <= i
         IN  [t |-> "object", v |-> [k \in keys |-> Evaluate(live[last(k)].value)]]
    [] lit.t = "arrayLiteral" ->
         [t |-> "array", v |-> [i \in DOMAIN lit.v |-> Evaluate(lit.v[i])]]
    [] OTHER -> lit

\* Reading a property of an object: an absent property reads as undefined.
Get(obj, k) == IF k \in DOMAIN obj.v THEN obj.v[k] ELSE Undefined

\* The names written in the literal, live or commented out.
WrittenKeys == {ConfigLiteral.v[i].key : i \in DOMAIN ConfigLiteral.v}
LiveKeys == {ConfigLiteral.v[i].key : i \in {j \in DOMAIN ConfigLiteral.v : ConfigLiteral.v[j].live}}

-----------------------------------------------------------------------------
(* The configurations a build may be given: the file as written, and the   *)
(* file with one property deleted or given a value of another type.        *)

NotAUrl == JsStr(<<"g", "i", "t", "h", "u", "b">>)

Mistyped(val) ==
  CASE val.t = "number" -> JsStr(<<"1", "0">>)
    [] val.t = "string" -> JsNum(0)
    [] val.t = "boolean" -> JsStr(<<"t", "r", "u", "e">>)
    [] OTHER -> JsStr(<<>>)

BadElement(val) ==
  CASE val.t = "arrayLiteral" -> JsArrLit(<<NotAUrl>>)
    [] OTHER -> JsObjLit(<<>>)

AsWritten == [field |-> "", kind |-> "asWritten"]

ContainerKeys ==
  {ConfigLiteral.v[i].key : i \in {j \in DOMAIN ConfigLiteral.v :
     ConfigLiteral.v[j].value.t \in {"arrayLiteral", "objectLiteral"}}}

Edits ==
  {AsWritten}
    \cup {[field |-> f, kind |-> k] : f \in LiveKeys, k \in {"missing", "wrongType"}}
    \cup {[field |-> f, kind |-> "badElement"] : f \in ContainerKeys}

Apply(e, lit) ==
  CASE e.kind = "missing" ->
         JsObjLit(SelectSeq(lit.v, LAMBDA p : p.key # e.field))
    [] e.kind = "wrongType" ->
         JsObjLit([i \in DOMAIN lit.v |->
           IF lit.v[i].key = e.field
             THEN [lit.v[i] EXCEPT !.value = Mistyped(@)] ELSE lit.v[i]])
    [] e.kind = "badElement" ->
         JsObjLit([i \in DOMAIN lit.v |->
           IF lit.v[i].key = e.field
             THEN [lit.v[i] EXCEPT !.value = BadElement(@)] ELSE lit.v[i]])
    [] OTHER -> lit

-----------------------------------------------------------------------------
(* src/unnamed/part_000: the example post *)

\* Faulty variant: the first two tags exchanged.
ExampleHeaderTagsSwapped == <<
    \* line 1
    <<"-", "-", "-">>,
    \* line 2
    <<"a", "u", "t", "h", "o", "r", ":", " ", "m", "e", "h", "d", "i">>,
    \* line 3
    <<
      "t", "i", "t", "l", "e", ":", " ", "\"", "T", "y", "p", "e", "s", "c", "r", "i",
      "p", "t", "'", "s", " ", "\\", "\"", "s", "t", "r", "i", "c", "t", "\\", "\"", " ",
      "c", "o", "m", "p", "i", "l", "e", "r", " ", "o", "p", "t", "i", "o", "n", "\"">>,
    \* line 4
    <<
      "c", "o", "v", "e", "r", ":", " ", "\"", "/", "i", "m", "a", "g", "e", "s", "/",
      "p", "o", "s", "t", "s", "/", "2", "0", "1", "8", "-", "0", "4", "-", "1", "9",
      "/", "c", "o", "v", "e", "r", ".", "j", "p", "g", "\"">>,
    \* line 5
    <<
      "d", "a", "t", "e", ":", " ", "\"", "2", "0", "1", "8", "-", "0", "4", "-", "1",
      "9", "\"">>,
    \* line 6
    <<
      "c", "a", "t", "e", "g", "o", "r", "y", ":", " ", "d", "e", "f", "a", "u", "l",
      "t">>,
    \* line 7
    <<"t", "a", "g", "s", ":">>,
    \* line 9
    <<" ", " ", " ", " ", "-", " ", "t", "y", "p", "e", "s", "c", "r", "i", "p", "t">>,
    \* line 8
    <<" ", " ", " ", " ", "-", " ", "j", "a", "v", "a", "s", "c", "r", "i", "p", "t">>,
    \* line 10
    <<" ", " ", " ", " ", "-", " ", "b", "u", "i", "l", "d">>,
    \* line 11
    <<
      " ", " ", " ", " ", "-", " ", "\"", "s", "t", "a", "t", "i", "c", " ", "t", "y",
      "p", "i", "n", "g", "\"">>,
    \* line 12
    <<"-", "-", "-">>>>

\* Lines 1-12: the front matter with its two delimiter lines.
ExampleHeaderLines == <<
    \* line 1
    <<"-", "-", "-">>,
    \* line 2
    <<"a", "u", "t", "h", "o", "r", ":", " ", "m", "e", "h", "d", "i">>,
    \* line 3
    <<
      "t", "i", "t", "l", "e", ":", " ", "\"", "T", "y", "p", "e", "s", "c", "r", "i",
      "p", "t", "'", "s", " ", "\\", "\"", "s", "t", "r", "i", "c", "t", "\\", "\"", " ",
      "c", "o", "m", "p", "i", "l", "e", "r", " ", "o", "p", "t", "i", "o", "n", "\"">>,
    \* line 4
    <<
      "c", "o", "v", "e", "r", ":", " ", "\"", "/", "i", "m", "a", "g", "e", "s", "/",
      "p", "o", "s", "t", "s", "/", "2", "0", "1", "8", "-", "0", "4", "-", "1", "9",
      "/", "c", "o", "v", "e", "r", ".", "j", "p", "g", "\"">>,
    \* line 5
    <<
      "d", "a", "t", "e", ":", " ", "\"", "2", "0", "1", "8", "-", "0", "4", "-", "1",
      "9", "\"">>,
    \* line 6
    <<
      "c", "a", "t", "e", "g", "o", "r", "y", ":", " ", "d", "e", "f", "a", "u", "l",
      "t">>,
    \* line 7
    <<"t", "a", "g", "s", ":">>,
    \* line 8
    <<" ", " ", " ", " ", "-", " ", "j", "a", "v", "a", "s", "c", "r", "i", "p", "t">>,
    \* line 9
    <<" ", " ", " ", " ", "-", " ", "t", "y", "p", "e", "s", "c", "r", "i", "p", "t">>,
    \* line 10
    <<" ", " ", " ", " ", "-", " ", "b", "u", "i", "l", "d">>,
    \* line 11
    <<
      " ", " ", " ", " ", "-", " ", "\"", "s", "t", "a", "t", "i", "c", " ", "t", "y",
      "p", "i", "n", "g", "\"">>,
    \* line 12
    <<"-", "-", "-">>>>

\* Lines 13-15: the beginning of the body.  The rest of the body (lines
\* 16-226) is prose and fenced code in which no line is a delimiter.
ExampleBodyLines == <<
    \* line 13
    <<
      "I", "n", " ", "T", "y", "p", "e", "S", "c", "r", "i", "p", "t", " ", "2", ".",
      "3", ",", " ", "a", " ", "n", "e", "w", " ", "c", "o", "m", "p", "i", "l", "e",
      "r", " ", "o", "p", "t", "i", "o", "n", ",", " ", "\"", "s", "t", "r", "i", "c",
      "t", "\"", ",", " ", "w", "a", "s", " ", "i", "n", "t", "r", "o", "d", "u", "c",
      "e", "d", ".", " ", "A", "s", " ", "i", "t", "s", " ", "n", "a", "m", "e", " ",
      "i", "m", "p", "l", "i", "e", "s", ",", " ", "i", "t", " ", "p", "r", "o", "v",
      "i", "d", "e", "s", " ", "m", "o", "r", "e", " ", "s", "t", "r", "i", "n", "g",
      "e", "n", "t", " ", "c", "o", "m", "p", "i", "l", "e", "r", " ", "c", "h", "e",
      "c", "k", "s", " ", "t", "h", "a", "n", " ", "t", "h", "e", " ", "d", "e", "f",
      "a", "u", "l", "t", ".", " ", "I", "t", "'", "s", " ", "a", "c", "t", "u", "a",
      "l", "l", "y", " ", "a", " ", "s", "h", "o", "r", "t", "c", "u", "t", " ", "f",
      "o", "r", " ", "a", " ", "c", "o", "l", "l", "e", "c", "t", "i", "o", "n", " ",
      "o", "f", " ", "o", "t", "h", "e", "r", " ", "o", "p", "t", "i", "o", "n", "s",
      ".">>,
    \* line 14
    <<>>,
    \* line 15
    <<
      "*", "T", "h", "i", "s", " ", "p", "o", "s", "t", " ", "i", "s", " ", "b", "a",
      "s", "e", "d", " ", "o", "n", " ", "a", " ", "t", "a", "l", "k", " ", "[", "F",
      "e", "l", "i", "x", " ", "B", "i", "l", "l", "o", "n", "]", "(", "h", "t", "t",
      "p", "s", ":", "/", "/", "t", "w", "i", "t", "t", "e", "r", ".", "c", "o", "m",
      "/", "f", "e", "l", "i", "x", "_", "b", "i", "l", "l", "o", "n", ")", " ", "d",
      "i", "d", " ", "a", "t", " ", "t", "h", "e", " ", "P", "a", "r", "i", "s", " ",
      "T", "y", "p", "e", "S", "c", "r", "i", "p", "t", " ", "M", "e", "e", "t", "u",
      "p", " ", "#", "1", "3", ".", " ", "I", " ", "c", "o", "u", "l", "d", " ", "n",
      "o", "t", " ", "f", "i", "n", "d", " ", "a", " ", "b", "l", "o", "g", " ", "p",
      "o", "s", "t", " ", "e", "q", "u", "i", "v", "a", "l", "e", "n", "t", " ", "s",
      "o", " ", "I", " ", "m", "a", "d", "e", " ", "o", "n", "e", ".", " ", "T", "h",
      "a", "n", "k", "s", " ", "f", "o", "r", " ", "s", "h", "a", "r", "i", "n", "g",
      " ", "t", "h", "e", " ", "k", "n", "o", "w", "l", "e", "d", "g", "e", " ", "@",
      "F", "e", "l", "i", "x", "!", "*">>>>

ExampleFile == ExampleHeaderLines \o ExampleBodyLines

-----------------------------------------------------------------------------
(* The front-matter splitter of specification section 4.2: a header        *)
(* between two delimiter lines, holding "key: value" lines and "- item"    *)
(* lines under a key without a value, then the body.                       *)

Delimiter == <<"-", "-", "-">>
MalformedFrontMatter == [ok |-> FALSE, error |-> "MalformedFrontMatter"]
NotParsed == [ok |-> FALSE, error |-> "notParsed"]

RECURSIVE LTrim(_)
LTrim(cs) == IF cs # <<>> /\ Head(cs) = " " THEN LTrim(Tail(cs)) ELSE cs

RECURSIVE RTrim(_)
RTrim(cs) ==
  IF cs # <<>> /\ cs[Len(cs)] = " " THEN RTrim(SubSeq(cs, 1, Len(cs) - 1)) ELSE cs

Trim(cs) == LTrim(RTrim(cs))

\* The text of a double-quoted scalar: a backslash makes the next character literal.
RECURSIVE Unescape(_)
Unescape(cs) ==
  IF cs = <<>> THEN <<>>
  ELSE IF Head(cs) = "\\" /\ Len(cs) >= 2
    THEN <<cs[2]>> \o Unescape(SubSeq(cs, 3, Len(cs)))
    ELSE <<Head(cs)>> \o Unescape(Tail(cs))

\* No quote inside a double-quoted scalar is left unescaped, none dangles.
RECURSIVE WellQuoted(_)
WellQuoted(cs) ==
  IF cs = <<>> THEN TRUE
  ELSE IF Head(cs) = "\\" THEN Len(cs) >= 2 /\ WellQuoted(SubSeq(cs, 3, Len(cs)))
  ELSE Head(cs) # "\"" /\ WellQuoted(Tail(cs))

Scalar(cs) ==
  IF cs # <<>> /\ Head(cs) = "\""
    THEN LET inner == SubSeq(cs, 2, Len(cs) - 1)
         IN  IF Len(cs) >= 2 /\ cs[Len(cs)] = "\"" /\ WellQuoted(inner)
               THEN [ok |-> TRUE, v |-> Unescape(inner)]
               ELSE [ok |-> FALSE, v |-> <<>>]
    ELSE [ok |-> TRUE, v |-> cs]

IsItem(line) ==
  LET s == LTrim(line) IN Len(s) >= 2 /\ s[1] = "-" /\ s[2] = " "

\* The positions of a colon that ends a key: followed by a space or by the line's end.
KeyEnds(line) ==
  {i \in DOMAIN line : line[i] = ":" /\ (i = Len(line) \/ line[i + 1] = " ")}

KeyEnd(line) == CHOOSE i \in KeyEnds(line) : \A j \in KeyEnds(line) : i <= j

IsKeyValue(line) ==
  /\ KeyEnds(line) # {}
  /\ KeyEnd(line) > 1
  /\ \A i \in 1..(KeyEnd(line) - 1) : line[i] \notin {" ", "\"", "-"}

RECURSIVE ParseHeader(_, _)
ParseHeader(lines, pairs) ==
  IF lines = <<>> THEN [ok |-> TRUE, pairs |-> pairs]
  ELSE
    LET line == Head(lines)
        bad == [ok |-> FALSE, pairs |-> <<>>]
    IN  IF Trim(line) = <<>> THEN ParseHeader(Tail(lines), pairs)
        ELSE IF IsItem(line) THEN
          LET item == Scalar(Trim(SubSeq(LTrim(line), 3, Len(LTrim(line)))))
          IN  IF pairs = <<>> \/ ~item.ok THEN bad
              ELSE IF pairs[Len(pairs)].value.t \notin {"null", "list"} THEN bad
              ELSE ParseHeader(Tail(lines),
                     [pairs EXCEPT ![Len(pairs)].value =
                        [t |-> "list",
                         v |-> Append(IF @.t = "list" THEN @.v ELSE <<>>, item.v)]])
        ELSE IF IsKeyValue(line) THEN
          LET p == KeyEnd(line)
              rest == Trim(SubSeq(line, p + 1, Len(line)))
              val == Scalar(rest)
          IN  IF ~val.ok THEN bad
              ELSE ParseHeader(Tail(lines),
                     Append(pairs,
                       [key |-> SubSeq(line, 1, p - 1),
                        value |-> IF rest = <<>> THEN [t |-> "null", v |-> <<>>]
                                  ELSE [t |-> "scalar", v |-> val.v]]))
        ELSE bad

\* The metadata record: one field per key, a repeated key keeps its last value.
Metadata(pairs) ==
  LET last(k) == CHOOSE i \in DOMAIN pairs :
                   /\ Str(pairs[i].key) = k
                   /\ \A j \in DOMAIN pairs : Str(pairs[j].key) = k => j <= i
  IN  [k \in {Str(pairs[i].key) : i \in DOMAIN pairs} |-> pairs[last(k)].value]

SplitFrontMatter(lines) ==
  IF lines = <<>> \/ Head(lines) # Delimiter THEN MalformedFrontMatter
  ELSE
    LET closers == {i \in 2..Len(lines) : lines[i] = Delimiter}
    IN  IF closers = {} THEN MalformedFrontMatter
        ELSE
          LET c == CHOOSE i \in closers : \A j \in closers : i <= j
              h == ParseHeader(SubSeq(lines, 2, c - 1), <<>>)
          IN  IF ~h.ok THEN MalformedFrontMatter
              ELSE [ok |-> TRUE,
                    metadata |-> Metadata(h.pairs),
                    body |-> SubSeq(lines, c + 1, Len(lines))]

-----------------------------------------------------------------------------
(* The build *)

Init ==
  /\ phase = "start"
  /\ edit = AsWritten
  /\ source = JsObjLit(<<>>)
  /\ settings = Undefined
  /\ thrown = "none"
  /\ lastRead = Undefined
  /\ doc = NotParsed

\* Faulty variant: the module is evaluated again on a later require.
LoadAgain(e) ==
  /\ phase' = "loaded"
  /\ edit' = e
  /\ source' = Apply(e, ConfigLiteral)
  /\ settings' = Evaluate(Apply(e, ConfigLiteral))
  /\ UNCHANGED <<thrown, lastRead, doc>>

\* Faulty variant: the module checks what it exports against the schema.
LoadValidating(e) ==
  /\ phase = "start"
  /\ phase' = "loaded"
  /\ edit' = e
  /\ source' = Apply(e, ConfigLiteral)
  /\ settings' = IF e = AsWritten THEN Evaluate(Apply(e, ConfigLiteral)) ELSE Undefined
  /\ thrown' = IF e = AsWritten THEN "none" ELSE "MalformedConfiguration"
  /\ UNCHANGED <<lastRead, doc>>

\* require("SiteConfig.js"): the literal is evaluated and exported.  The
\* statement has no condition and no throw, and runs once per process.
Load(e) ==
  /\ phase = "start"
  /\ phase' = "loaded"
  /\ edit' = e
  /\ source' = Apply(e, ConfigLiteral)
  /\ settings' = Evaluate(Apply(e, ConfigLiteral))
  /\ UNCHANGED <<thrown, lastRead, doc>>

\* A consumer reads one property of the exported object.
Read(k) ==
  /\ phase = "loaded"
  /\ lastRead' = Get(settings, k)
  /\ UNCHANGED <<phase, edit, source, settings, thrown, doc>>

\* The generator splits the example post.
ParseFile ==
  /\ phase = "loaded"
  /\ doc = NotParsed
  /\ doc' = SplitFrontMatter(ExampleFile)
  /\ UNCHANGED <<phase, edit, source, settings, thrown, lastRead>>

Next ==
  \/ \E e \in Edits : Load(e)
  \/ \E k \in WrittenKeys : Read(k)
  \/ ParseFile

Spec == Init /\ [][Next]_vars

-----------------------------------------------------------------------------
(* The configuration schema of specification section 6, used to state the  *)
(* claims.                                                                 *)

RecognizedFields ==
  {"blogPostDir", "blogAuthorDir", "blogAuthorId", "siteTitle", "siteTitleAlt",
   "siteLogo", "siteUrl", "pathPrefix", "siteDescription", "siteCover",
   "siteNavigation", "siteRss", "siteRssAuthor", "sitePaginationLimit",
   "googleAnalyticsID", "siteSocialUrls", "postDefaultCategoryID", "userLinks",
   "copyright", "themeColor", "backgroundColor", "promoteGatsby"}

Letters ==
  {"a", "b", "c", "d", "e", "f", "g", "h", "i", "j", "k", "l", "m",
   "n", "o", "p", "q", "r", "s", "t", "u", "v", "w", "x", "y", "z"}

\* A scheme of letters, a colon, and something after it.
IsUrlShaped(cs) ==
  \E i \in 2..(Len(cs) - 1) : cs[i] = ":" /\ \A j \in 1..(i - 1) : cs[j] \in Letters

IsString(x) == x.t = "string"

IsUserLink(x) ==
  /\ x.t = "object"
  /\ DOMAIN x.v = {"label", "url", "iconClassName"}
  /\ \A k \in DOMAIN x.v : IsString(x.v[k])

IsCopyright(x) ==
  /\ x.t = "object"
  /\ "label" \in DOMAIN x.v
  /\ DOMAIN x.v \subseteq {"label", "year", "url"}
  /\ \A k \in DOMAIN x.v : IsString(x.v[k])

FieldShapeOk(f, x) ==
  CASE f \in {"siteNavigation", "promoteGatsby"} -> x.t = "boolean"
    [] f = "sitePaginationLimit" -> x.t = "number" /\ x.v \in Int
    [] f = "siteSocialUrls" ->
         /\ x.t = "array"
         /\ \A i \in DOMAIN x.v : IsString(x.v[i]) /\ IsUrlShaped(x.v[i].v)
    [] f = "userLinks" -> x.t = "array" /\ \A i \in DOMAIN x.v : IsUserLink(x.v[i])
    [] f = "copyright" -> IsCopyright(x)
    [] OTHER -> IsString(x)

\* The recognized fields an object lacks or holds with the wrong shape.
SchemaViolations(obj) ==
  {f \in RecognizedFields : f \notin DOMAIN obj.v \/ ~FieldShapeOk(f, obj.v[f])}

RenderValue(val) ==
  IF val.t = "list" THEN [i \in DOMAIN val.v |-> Str(val.v[i])] ELSE Str(val.v)

\* A metadata record with its strings rendered.
Render(m) == [k \in DOMAIN m |-> RenderValue(m[k])]

LoadedAsWritten == phase = "loaded" /\ edit = AsWritten

-----------------------------------------------------------------------------
(* Claims *)

\* C1 (as stated): loading a configuration that lacks a required field, or
\* holds a value of the wrong type for one, fails with MalformedConfiguration
\* instead of returning a settings record.
C1_MalformedConfigurationRejected ==
  (phase # "start" /\ SchemaViolations(Evaluate(source)) # {})
    => (thrown = "MalformedConfiguration" /\ settings = Undefined)

\* C1 (amended): loading never fails.  It returns the record exactly as the
\* configuration is written: after the load nothing has been thrown, the
\* settings are an object, and the fields of it that violate the schema are
\* exactly the one field that was deleted or mistyped (none for the
\* configuration as written).
C1_LoadReturnsRecordUnvalidated ==
  phase # "start" =>
    /\ thrown = "none"
    /\ settings.t = "object"
    /\ SchemaViolations(settings) = (IF edit = AsWritten THEN {} ELSE {edit.field})

\* C1 witness: a configuration whose sitePaginationLimit is a string was
\* loaded and a consumer has read the string.
C1_Witness ==
  /\ phase = "loaded"
  /\ edit = [field |-> "sitePaginationLimit", kind |-> "wrongType"]
  /\ lastRead = JsStr(<<"1", "0">>)

\* C2: loading the example configuration yields sitePaginationLimit = 10 and
\* a siteSocialUrls of exactly three elements, in order, whose last element
\* is "mailto:hello@mbenadda.com".
C2_ExampleValues ==
  LoadedAsWritten =>
    /\ settings.v.sitePaginationLimit = JsNum(10)
    /\ settings.v.siteSocialUrls.t = "array"
    /\ Len(settings.v.siteSocialUrls.v) = 3
    /\ settings.v.siteSocialUrls.v[3].t = "string"
    /\ Str(settings.v.siteSocialUrls.v[3].v) = "mailto:hello@mbenadda.com"

\* C2 witness: the example configuration is loaded and the pagination limit
\* has been read.
C2_Witness == LoadedAsWritten /\ lastRead = JsNum(10)

\* C3 (as stated): the front matter of the example post parses to exactly
\* the five fields author, title, date, category and tags.
C3_MetadataFiveFields ==
  doc # NotParsed =>
    /\ doc.ok
    /\ Render(doc.metadata) =
         [author |-> "mehdi",
          title |-> "Typescript's \"strict\" compiler option",
          date |-> "2018-04-19",
          category |-> "default",
          tags |-> <<"javascript", "typescript", "build", "static typing">>]

\* C3 (amended): the front matter of the example post parses to the six
\* fields author, title, cover, date, category and tags, the tags in the
\* order javascript, typescript, build, static typing.
C3_MetadataWithCover ==
  doc # NotParsed =>
    /\ doc.ok
    /\ Render(doc.metadata) =
         [author |-> "mehdi",
          title |-> "Typescript's \"strict\" compiler option",
          cover |-> "/images/posts/2018-04-19/cover.jpg",
          date |-> "2018-04-19",
          category |-> "default",
          tags |-> <<"javascript", "typescript", "build", "static typing">>]

\* C3 witness: the example post has been split and its header carries a cover.
C3_Witness == doc.ok /\ "cover" \in DOMAIN doc.metadata /\ Len(doc.body) > 0

\* The value of every field that was not edited is the value the file as
\* written gives it: no field is computed from another.
FieldsIndependent ==
  \A g \in DOMAIN settings.v :
    g # edit.field => settings.v[g] = Evaluate(ConfigLiteral).v[g]

\* C4: once the configuration is loaded no step changes the settings record,
\* whatever reads and parsing follow, and no field depends on another field.
C4_NeverMutated ==
  [][phase # "start" => (settings' = settings /\ FieldsIndependent)]_vars

\* C4 witness: after the load of a configuration lacking siteTitle, a
\* consumer has read a value and the post has been split.
C4_Witness ==
  /\ phase = "loaded"
  /\ edit = [field |-> "siteTitle", kind |-> "missing"]
  /\ lastRead.t = "string"
  /\ doc.ok

\* C7: the exported record has exactly the 22 recognized fields, each of the
\* stated shape: two booleans, an integer, a sequence of URL strings, user
\* links of exactly label, url and iconClassName, a copyright with a label
\* and at most year and url, strings otherwise.
C7_ExportedShape ==
  LoadedAsWritten =>
    /\ settings.t = "object"
    /\ DOMAIN settings.v = RecognizedFields
    /\ Cardinality(DOMAIN settings.v) = 22
    /\ SchemaViolations(settings) = {}

\* C7 witness: the example configuration is loaded and the copyright record,
\* which carries its label alone, has been read.
C7_Witness ==
  /\ LoadedAsWritten
  /\ lastRead.t = "object"
  /\ DOMAIN lastRead.v = {"label"}

\* C10: userLinks and siteSocialUrls have the same length and the same URLs
\* in the same order, and the author of the example post is the fallback
\* author blogAuthorId.
C10_LinksMirrorSocialUrls ==
  LoadedAsWritten =>
    /\ Len(settings.v.userLinks.v) = Len(settings.v.siteSocialUrls.v)
    /\ \A i \in DOMAIN settings.v.userLinks.v :
         settings.v.userLinks.v[i].v.url = settings.v.siteSocialUrls.v[i]
    /\ doc.ok =>
         /\ "author" \in DOMAIN doc.metadata
         /\ doc.metadata.author.t = "scalar"
         /\ doc.metadata.author.v = settings.v.blogAuthorId.v

\* C10 witness: the example configuration is loaded, the post is split and
\* the fallback author has been read.
C10_Witness ==
  /\ LoadedAsWritten
  /\ doc.ok
  /\ lastRead = settings.v.blogAuthorId
====
